---- MODULE Spec2Model ----
(***************************************************************************)
(* Model of the portfolio repository (src/generate_projects.js): the       *)
(* offline generator (listRepos, enrichment, normalisation, ranking,       *)
(* write of projects.json) and the browser page (tryLoadLocalJson,         *)
(* fetchGitHubRepos, init and its rendering).                              *)
(*                                                                         *)
(* JavaScript strings that the code takes apart (README texts) are         *)
(* sequences of one-character strings; other strings are TLA+ strings.     *)
(* A field that is null or undefined in JavaScript is a field that is not  *)
(* in the DOMAIN of the record (JSON.stringify drops undefined fields, and *)
(* 'x || d' and 'x ? a : b' treat null and undefined alike).               *)
(***************************************************************************)
EXTENDS Integers, Sequences, FiniteSets, TLC

VARIABLES
    pc,            \* position of the running program (generator or page)
    upstream,      \* the hosting API as this run sees it (a scenario)
    localFile,     \* projects.json as the page's fetch finds it
    page,          \* listRepos: let page
    all,           \* listRepos: const all
    repos,         \* main: const repos
    idx,           \* main: position of the loop for (const r of repos)
    repoObj,       \* main: const repoObj of the current iteration
    projects,      \* main: const projects
    outFile,       \* content of projects.json on the generator's disk
    exitCode,      \* process exit code of the generator (-1: still running)
    requests,      \* every network request issued so far, in order
    inflight,      \* the requests issued and not yet answered
    projectsCache, \* page: let projectsCache
    notice,        \* page: the #__notice element (text kind and border kind)
    cards,         \* page: the children of #projects
    stats,         \* page: data-target of the stat counters
    md,            \* excerpt harness: the README text handed to excerptMarkdown
    maxLen,        \* excerpt harness: the maximum length handed to it
    excerpt,       \* excerpt harness: the returned excerpt
    search,        \* page: value of the #search input
    sortBy,        \* page: value of the #sort select
    active,        \* page: data-tag of the .filter.active button
    filters,       \* page: data-tag of the tag buttons renderFilters has made
    exported,      \* page: the documents Export JSON has handed to the browser
    modalOpen      \* page: #modal has aria-hidden = false

vars == <<pc, upstream, localFile, page, all, repos, idx, repoObj, projects,
          outFile, exitCode, requests, inflight, projectsCache, notice, cards,
          stats, md, maxLen, excerpt, search, sortBy, active, filters, exported,
          modalOpen>>

\* what the visitor's events and renderFilters act on
ui == <<search, sortBy, active, filters, exported, modalOpen>>

(***************************************************************************)
(* Bounds of the model.                                                    *)
(***************************************************************************)
\* longest listing built from the varied repository templates
MaxRepos == 3
\* most full (100-item) pages an upstream scenario holds before its last page
MaxFull == 2
\* how far around maxLen the lengths of the README texts of the harness go
PadSpread == 4

(***************************************************************************)
(* excerptMarkdown and the regular expressions it uses.                    *)
(***************************************************************************)
NL == "\n"
CR == "\r"
\* the grave accent U+0060 (a string of the module cannot hold the character)
BQ == "GRAVE"
\* the dot of a JavaScript regular expression matches all but line terminators
IsLineTerminator(c) == c \in {NL, CR}
\* String.prototype.trim strips white space and line terminators
IsWhiteSpace(c) == c \in {" ", "\t", NL, CR}

\* the least k in a..b with P(k), 0 if there is none
FirstIn(a, b, P(_)) ==
    IF \E k \in a..b : P(k)
    THEN CHOOSE k \in a..b : P(k) /\ \A j \in a..(k - 1) : ~P(j)
    ELSE 0

\* the greatest k in a..b with P(k), 0 if there is none
LastIn(a, b, P(_)) ==
    IF \E k \in a..b : P(k)
    THEN CHOOSE k \in a..b : P(k) /\ \A j \in (k + 1)..b : ~P(j)
    ELSE 0

\* index of the first line terminator of s at or behind index a, Len(s) + 1
\* if there is none: a run of dots that starts at a ends before it
DotsEnd(s, a) ==
    LET IsLT(k) == IsLineTerminator(s[k])
        k == FirstIn(a, Len(s), IsLT)
    IN  IF k = 0 THEN Len(s) + 1 ELSE k

\* first ')' that a lazy '.*?\)' starting at index a reaches, 0 if none
LazyParenEnd(s, a) ==
    LET IsParen(k) == s[k] = ")"
    IN  FirstIn(a, DotsEnd(s, a) - 1, IsParen)

\* \[.*?\]\(.*?\) with its '[' at index o: <<index of ']', index of ')'>>,
\* <<0, 0>> if it does not match there.  The first lazy run grows until the
\* rest of the expression matches.
LinkMatch(s, o) ==
    IF o > Len(s) \/ s[o] # "[" THEN <<0, 0>>
    ELSE LET Closes(j) == /\ j + 1 <= Len(s)
                          /\ s[j] = "]"
                          /\ s[j + 1] = "("
                          /\ LazyParenEnd(s, j + 2) # 0
             j == FirstIn(o + 1, DotsEnd(s, o + 1), Closes)
         IN  IF j = 0 THEN <<0, 0>> ELSE <<j, LazyParenEnd(s, j + 2)>>

IsFence(s, p) == p + 2 <= Len(s) /\ s[p] = BQ /\ s[p + 1] = BQ /\ s[p + 2] = BQ

\* index of the last character of the match of the expression re that starts
\* at index p of s, 0 if the expression does not match at p
MatchEnd(re, s, p) ==
    CASE re = "image"   -> IF s[p] = "!" THEN LinkMatch(s, p + 1)[2] ELSE 0
      [] re = "fence"   -> IF IsFence(s, p)
                           THEN LET Fence(q) == IsFence(s, q)
                                    q == FirstIn(p + 3, Len(s), Fence)
                                IN  IF q = 0 THEN 0 ELSE q + 2
                           ELSE 0
      [] re = "heading" -> IF s[p] = "#" /\ p < Len(s) /\ ~IsLineTerminator(s[p + 1])
                           THEN DotsEnd(s, p + 1) - 1
                           ELSE 0
      [] re = "link"    -> LinkMatch(s, p)[2]
      [] re = "crlf"    -> IF s[p] = CR /\ p < Len(s) /\ s[p + 1] = NL THEN p + 1 ELSE 0

\* what String.prototype.replace puts in place of the match s[p..e]
Replacement(re, s, p, e) ==
    CASE re = "link" -> SubSeq(s, p + 1, LinkMatch(s, p)[1] - 1)   \* '$1'
      [] re = "crlf" -> <<NL>>
      [] OTHER       -> <<>>

\* s.replace(/re/g, ...) from index i on: matches are taken left to right and
\* do not overlap
RECURSIVE ReplaceFrom(_, _, _)
ReplaceFrom(re, s, i) ==
    LET Matches(p) == MatchEnd(re, s, p) # 0
        From(p) == IF p = 0 THEN {SubSeq(s, i, Len(s))}
                   ELSE {SubSeq(s, i, p - 1) \o Replacement(re, s, p, e)
                            \o ReplaceFrom(re, s, e + 1) : e \in {MatchEnd(re, s, p)}}
    IN  CHOOSE r \in UNION {From(p) : p \in {FirstIn(i, Len(s), Matches)}} : TRUE

ReplaceAll(re, s) == ReplaceFrom(re, s, 1)

Trim(s) ==
    LET Inked(k) == ~IsWhiteSpace(s[k])
    IN  IF FirstIn(1, Len(s), Inked) = 0 THEN <<>>
        ELSE SubSeq(s, FirstIn(1, Len(s), Inked), LastIn(1, Len(s), Inked))

\* the text excerptMarkdown holds in t when it compares lengths: each
\* replace works on the result of the one before it
CleanMarkdown(text) ==
    LET Replaced(re, T) == {ReplaceAll(re, t) : t \in T}
    IN  CHOOSE t \in {Trim(t5) : t5 \in
                Replaced("crlf",
                Replaced("link",
                Replaced("heading",
                Replaced("fence",
                Replaced("image", {text})))))} : TRUE

Ellipsis == <<".", ".", ".">>

\* String.prototype.slice(0, n) for n >= 0 and for n < 0
Slice0(t, n) ==
    IF n >= 0 THEN SubSeq(t, 1, IF n < Len(t) THEN n ELSE Len(t))
    ELSE SubSeq(t, 1, IF Len(t) + n > 0 THEN Len(t) + n ELSE 0)

\* mutant of excerptMarkdown: slice(0, maxLen) leaves no room for the ellipsis
excerptMarkdownNoRoom(text, limit) ==
    IF text = <<>> THEN <<>>
    ELSE CHOOSE r \in {IF Len(t) <= limit THEN t ELSE Slice0(t, limit) \o Ellipsis :
                        t \in {CleanMarkdown(text)}} : TRUE

excerptMarkdown(text, limit) ==
    IF text = <<>> THEN <<>>
    ELSE CHOOSE r \in {IF Len(t) <= limit THEN t ELSE Slice0(t, limit - 3) \o Ellipsis :
                        t \in {CleanMarkdown(text)}} : TRUE

(***************************************************************************)
(* The hosting API.  A response is [status, kind, items]: status 0 stands  *)
(* for a fetch that rejects (transport failure), kind is what the body     *)
(* parses to ("array", "object", or "invalid" for a body that is no JSON). *)
(***************************************************************************)
perPage == 100

Ok(res) == res.status >= 200 /\ res.status <= 299

Owner == "maryamali27"
RepoName(p, i) == "r" \o ToString(p) \o "-" \o ToString(i)
FullName(name) == Owner \o "/" \o name

ReadmeText == <<"#", " ", "T", NL, "!", "[", "i", "]", "(", "u", ")", "[", "a", "]", "(", "b", ")", " ", "x", CR, NL>>

Contributor(login, n) ==
    [login |-> login, avatar_url |-> "avatar/" \o login, html_url |-> "user/" \o login,
     contributions |-> n]

\* the fields every repository summary of the API carries
BaseSummary(name, stars, forks, updated) ==
    [name |-> name, full_name |-> FullName(name),
     html_url |-> "https://github.com/" \o FullName(name),
     stargazers_count |-> stars, forks_count |-> forks,
     updated_at |-> updated, created_at |-> 2020,
     size |-> stars + 1, open_issues_count |-> forks]

\* The repositories a listing is made of: a summary without its name (the
\* fields that may be null are absent or present), and what the README and
\* contributors endpoints answer for the repository.
TemplateList ==
    << \* every optional field present, both enrichments answer
      [stars |-> 5, forks |-> 1, updated |-> 2024,
       opt |-> [description |-> "Site", topics |-> <<"web", "css">>, language |-> "JavaScript",
                license |-> [spdx_id |-> "MIT", name |-> "MIT License"],
                default_branch |-> "master"],
       readme |-> [status |-> 200, text |-> ReadmeText],
       contributors |-> [status |-> 200, kind |-> "array",
                         items |-> <<Contributor("ann", 7), Contributor("bob", 2)>>]],
      \* every optional field null; no README (404), contributors answers 204
      \* with no body (an empty repository)
      [stars |-> 0, forks |-> 0, updated |-> 2021,
       opt |-> <<>>,
       readme |-> [status |-> 404, text |-> <<>>],
       contributors |-> [status |-> 204, kind |-> "invalid", items |-> <<>>]],
      \* a tie in stars with the first; README fails with a server error (and a
      \* body), contributors answers
      [stars |-> 5, forks |-> 3, updated |-> 2022,
       opt |-> [topics |-> <<>>, language |-> "Python", license |-> [name |-> "Other"]],
       readme |-> [status |-> 500, text |-> <<"e", "r", "r">>],
       contributors |-> [status |-> 200, kind |-> "array", items |-> <<Contributor("cy", 1)>>]],
      \* README answers, the contributors request rejects
      [stars |-> 2, forks |-> 0, updated |-> 2023,
       opt |-> [description |-> "", language |-> "JavaScript", default_branch |-> "main"],
       readme |-> [status |-> 200, text |-> <<"h", "i">>],
       contributors |-> [status |-> 0, kind |-> "invalid", items |-> <<>>]],
      \* README is there but empty, contributors is refused (403)
      [stars |-> 9, forks |-> 2, updated |-> 2025,
       opt |-> [description |-> "Tool", topics |-> <<"cli">>,
                license |-> [spdx_id |-> "Apache-2.0", name |-> "Apache"]],
       readme |-> [status |-> 200, text |-> <<>>],
       contributors |-> [status |-> 403, kind |-> "object", items |-> <<>>]]
    >>

\* a listing names its repositories by their index in TemplateList
RepoTemplates == 1..Len(TemplateList)

\* the repository a template stands for once it has a name
Entry(k, name) ==
    LET t == TemplateList[k]
    IN  [summary |-> BaseSummary(name, t.stars, t.forks, t.updated) @@ t.opt,
         readme |-> t.readme, contributors |-> t.contributors]

\* the i-th repository of a page made of bulk repositories
BulkEntry(p, i) ==
    [summary |-> BaseSummary(RepoName(p, i), i % 4, i % 3, 2000 + (i % 20))
                    @@ [description |-> "bulk", language |-> "JavaScript"],
     readme |-> IF i % 5 = 0 THEN [status |-> 0, text |-> <<>>]
                ELSE [status |-> 200, text |-> <<"b">>],
     contributors |-> IF i % 7 = 0 THEN [status |-> 403, kind |-> "object", items |-> <<>>]
                      ELSE IF i % 7 = 1 THEN [status |-> 200, kind |-> "array", items |-> <<>>]
                      ELSE [status |-> 200, kind |-> "array", items |-> <<Contributor("ann", i)>>]]

BulkEntries(p, n) == [i \in 1..n |-> BulkEntry(p, i)]

\* all sequences over S of length 0..n
SeqsUpTo(S, n) == UNION {[1..k -> S] : k \in 0..n}

\* The last page of a listing: the first page that is not a full page of
\* repositories.  bulk is the number of bulk repositories it starts with,
\* templates the repositories that follow them.
ShortPages ==
    {[status |-> 200, kind |-> "array", bulk |-> 0, templates |-> ts] :
        ts \in SeqsUpTo(RepoTemplates, MaxRepos)}
    \cup {[status |-> 200, kind |-> "array", bulk |-> 37, templates |-> <<>>]}

OneTemplate == CHOOSE t \in RepoTemplates : TemplateList[t].stars = 9

\* pages that end a listing with an error, or with a body that is no array
BadPages ==
    {[status |-> st, kind |-> "object", bulk |-> 0, templates |-> <<>>] : st \in {403, 404, 500, 200}}
    \cup {[status |-> 0, kind |-> "invalid", bulk |-> 0, templates |-> <<>>],
          [status |-> 200, kind |-> "invalid", bulk |-> 0, templates |-> <<>>],
          [status |-> 500, kind |-> "array", bulk |-> 0, templates |-> <<OneTemplate>>]}

\* what follows the full pages of a scenario that has some
PagesAfterFull ==
    BadPages \cup {sp \in ShortPages : sp.bulk = 37 \/ Len(sp.templates) = 0}
             \cup {[status |-> 200, kind |-> "array", bulk |-> 0, templates |-> <<OneTemplate>>]}

\* An upstream: full pages of perPage bulk repositories, then the last page.
Upstreams ==
    {[full |-> 0, last |-> lp] : lp \in ShortPages \cup BadPages}
    \cup {[full |-> k, last |-> lp] : k \in 1..MaxFull, lp \in PagesAfterFull}

\* the repositories of page n of upstream u (n >= 1)
PageEntries(u, n) ==
    IF n <= u.full THEN BulkEntries(n, perPage)
    ELSE BulkEntries(n, u.last.bulk)
            \o [i \in 1..Len(u.last.templates) |->
                    Entry(u.last.templates[i], RepoName(n, u.last.bulk + i))]

\* GET /users/{user}/repos?per_page=100&page=n&sort=updated.  Behind the last
\* page the API answers empty pages.
PageResponse(u, n) ==
    IF n <= u.full
        THEN [status |-> 200, kind |-> "array",
              items |-> [i \in 1..perPage |-> BulkEntry(n, i).summary]]
    ELSE IF n = u.full + 1
        THEN [status |-> u.last.status, kind |-> u.last.kind,
              items |-> IF u.last.kind = "array"
                        THEN [i \in 1..Len(PageEntries(u, n)) |-> PageEntries(u, n)[i].summary]
                        ELSE <<>>]
    ELSE [status |-> 200, kind |-> "array", items |-> <<>>]

\* number of repositories on page n of upstream u
PageLength(u, n) ==
    IF n <= u.full THEN perPage
    ELSE IF n = u.full + 1 /\ u.last.kind = "array" THEN u.last.bulk + Len(u.last.templates)
    ELSE 0

\* the repository that the API knows under a full name
EntryOf(u, full) ==
    LET at == CHOOSE pi \in UNION {{<<p, i>> : i \in 1..PageLength(u, p)} : p \in 1..(u.full + 1)} :
                  FullName(RepoName(pi[1], pi[2])) = full
    IN  IF at[1] <= u.full \/ at[2] <= u.last.bulk THEN BulkEntry(at[1], at[2])
        ELSE Entry(u.last.templates[at[2] - u.last.bulk], RepoName(at[1], at[2]))

\* GET /repos/{full_name}/readme and GET /repos/{full_name}/contributors
ReadmeResponse(u, full) == EntryOf(u, full).readme
ContributorsResponse(u, full) == EntryOf(u, full).contributors

(***************************************************************************)
(* The generator: normalisation, ranking, and the steps of its main.       *)
(***************************************************************************)
OfflineMaxLen == 1400
DefaultMaxLen == 1200
FeaturedCount == 3

Request(api, n, full) == [api |-> api, page |-> n, repo |-> full]

safeThumbnail(fullName) == "https://opengraph.githubassets.com/1/" \o fullName

\* r.f || d
FieldOr(r, f, d) == IF f \in DOMAIN r THEN r[f] ELSE d

\* r.topics && r.topics.length ? r.topics : []
Tags(r) == IF "topics" \in DOMAIN r /\ Len(r.topics) # 0 THEN r.topics ELSE <<>>

\* r.license ? (r.license.spdx_id || r.license.name) : '' ; a license object
\* with neither leaves the field undefined
LicenseField(r) ==
    IF "license" \notin DOMAIN r THEN [license |-> ""]
    ELSE IF "spdx_id" \in DOMAIN r.license /\ r.license.spdx_id # ""
        THEN [license |-> r.license.spdx_id]
    ELSE IF "name" \in DOMAIN r.license THEN [license |-> r.license.name]
    ELSE <<>>

\* the object literal that main and fetchGitHubRepos both build from a summary
RepoObj(r) ==
    [name |-> r.name,
     repo |-> r.html_url,
     desc |-> FieldOr(r, "description", ""),
     tags |-> Tags(r),
     stars |-> FieldOr(r, "stargazers_count", 0),
     forks |-> FieldOr(r, "forks_count", 0),
     featured |-> FALSE,
     updated_at |-> r.updated_at,
     created_at |-> r.created_at,
     language |-> FieldOr(r, "language", ""),
     thumbnail |-> safeThumbnail(r.full_name),
     screenshots |-> <<>>,
     size |-> FieldOr(r, "size", 0),
     open_issues_count |-> FieldOr(r, "open_issues_count", 0),
     default_branch |-> FieldOr(r, "default_branch", "main")]
    @@ LicenseField(r)

\* mutant of CompareStars: the operands swapped (ascending)
CompareStarsAscending(a, b) == FieldOr(a, "stars", 0) - FieldOr(b, "stars", 0)

\* (a, b) => (b.stars || 0) - (a.stars || 0)
CompareStars(a, b) == FieldOr(b, "stars", 0) - FieldOr(a, "stars", 0)

\* list.sort(CompareStars).  Array.prototype.sort is stable (ECMAScript 2019,
\* Node 11 and later), and CompareStars orders two records by their star
\* counts alone: the result is, for each star count from the highest down,
\* the records of the list that have it, in the order the list has them.
RECURSIVE SortedFrom(_, _)
SortedFrom(list, counts) ==
    IF counts = {} THEN <<>>
    ELSE LET top == CHOOSE c \in counts : \A d \in counts : CompareStars([stars |-> c], [stars |-> d]) <= 0
             IsTop(p) == CompareStars(p, [stars |-> top]) = 0
         IN  SelectSeq(list, IsTop) \o SortedFrom(list, counts \ {top})

SortByStars(list) ==
    SortedFrom(list, {FieldOr(list[i], "stars", 0) : i \in 1..Len(list)})

\* mutant of MarkFeatured: slice(0, 2)
MarkFeaturedShort(list) ==
    [i \in 1..Len(list) |->
        IF i < FeaturedCount THEN [list[i] EXCEPT !.featured = TRUE] ELSE list[i]]

\* list.slice(0, 3).forEach(p => p.featured = true)
MarkFeatured(list) ==
    [i \in 1..Len(list) |->
        IF i <= FeaturedCount THEN [list[i] EXCEPT !.featured = TRUE] ELSE list[i]]

\* mutant of getRepoReadme: fetchRaw without its check of res.ok
getRepoReadmeUnchecked(res) == res.text

\* getRepoReadme: the text, or <<>> for null (fetchRaw answers null when the
\* status is no success, the catch when the fetch rejects); an empty text
\* and null are both falsy where main looks at the result
getRepoReadme(res) == IF Ok(res) THEN res.text ELSE <<>>

\* getContributors: the mapped array, or [] from the catch (status no success,
\* fetch rejected, body no JSON, or a body without map)
getContributors(res) ==
    IF Ok(res) /\ res.kind = "array"
    THEN [i \in 1..Len(res.items) |->
            [login |-> res.items[i].login, avatar |-> res.items[i].avatar_url,
             url |-> res.items[i].html_url, contributions |-> res.items[i].contributions]]
    ELSE <<>>

\* mutant of LastPage: a full page is taken for the last one
LastPageOffByOne(data) == Len(data) <= perPage

\* data.length < perPage
LastPage(data) == Len(data) < perPage

\* mutant of ListingThrows: fetchJson without its check of res.ok
ListingThrowsUnchecked(res) == res.kind # "array"

\* fetchJson, then all.push(...data): throws when the fetch rejects, the status
\* is no success, the body is no JSON, or the body cannot be spread
ListingThrows(res) == ~Ok(res) \/ res.kind # "array"

PreviousDocument == [generated_at |-> "earlier", projects |-> <<>>]
Document(list) == [generated_at |-> "now", projects |-> list]

GeneratorIdle ==
    /\ page = 0 /\ all = <<>> /\ repos = <<>> /\ idx = 0 /\ repoObj = <<>>
    /\ projects = <<>> /\ outFile = PreviousDocument /\ exitCode = -1

\* the page as index.html has it before script.js runs
PageShown ==
    /\ projectsCache = <<>>
    /\ notice = [text |-> "none", kind |-> "none"]
    /\ cards = <<>>
    /\ stats = [totalRepos |-> -1, totalStars |-> -1, totalForks |-> -1, languages |-> -1]
    /\ search = "" /\ sortBy = "featured" /\ active = "__all__" /\ filters = {}
    /\ exported = <<>> /\ modalOpen = FALSE

PageIdle == localFile = [status |-> 0, kind |-> "invalid", records |-> <<>>] /\ PageShown

HarnessIdle == md = <<>> /\ maxLen = 0 /\ excerpt = <<>>

InitGenerator ==
    /\ pc = "main"
    /\ upstream \in Upstreams
    /\ requests = <<>> /\ inflight = {}
    /\ GeneratorIdle /\ PageIdle /\ HarnessIdle

\* fetch(url): the request is on the wire
Issue(req) ==
    /\ requests' = Append(requests, req)
    /\ inflight' = inflight \cup {req}

\* mutant of Answered: the answer is not awaited, the request stays on the wire
AnsweredNever(req) == inflight

\* await: the request has completed (fulfilled or rejected)
Answered(req) == inflight \ {req}

\* The top of the loop over repos with the projects collected so far: the
\* next repository's object is built and its README requested, or, behind the
\* last one, the projects are ranked and main is about to write the file.
LoopTop(rs, ps, i, pending) ==
    /\ repos' = rs
    /\ idx' = i
    /\ IF i <= Len(rs)
       THEN /\ repoObj' = RepoObj(rs[i])
            /\ projects' = ps
            /\ requests' = Append(requests, Request("readme", 0, rs[i].full_name))
            /\ inflight' = pending \cup {Request("readme", 0, rs[i].full_name)}
            /\ pc' = "await_readme"
       ELSE /\ repoObj' = <<>>
            /\ projects' = MarkFeatured(SortByStars(ps))
            /\ requests' = requests
            /\ inflight' = pending
            /\ pc' = "write"

\* the script starts: main calls listRepos, which requests page 1
Main ==
    /\ pc = "main"
    /\ page' = 1
    /\ all' = <<>>
    /\ Issue(Request("repos", 1, ""))
    /\ pc' = "await_list"
    /\ UNCHANGED <<upstream, localFile, repos, idx, repoObj, projects, outFile, exitCode,
                   projectsCache, notice, cards, stats, md, maxLen, excerpt>>
    /\ UNCHANGED ui

\* listRepos resumes with the answer to the request for page `page`
ListResponse ==
    /\ pc = "await_list"
    /\ \E req \in {Request("repos", page, "")}, res \in {PageResponse(upstream, page)} :
           IF ListingThrows(res)
           THEN \* the error reaches the catch of main: process.exit(1)
                /\ exitCode' = 1
                /\ pc' = "exit"
                /\ inflight' = Answered(req)
                /\ all' = <<>>
                /\ UNCHANGED <<page, repos, idx, repoObj, projects, requests>>
           ELSE IF LastPage(res.items)
           THEN \* break; return all; main goes on to its loop
                /\ all' = <<>>
                /\ LoopTop(all \o res.items, <<>>, 1, Answered(req))
                /\ UNCHANGED <<page, exitCode>>
           ELSE /\ all' = all \o res.items
                /\ page' = page + 1
                /\ requests' = Append(requests, Request("repos", page + 1, ""))
                /\ inflight' = Answered(req) \cup {Request("repos", page + 1, "")}
                /\ pc' = "await_list"
                /\ UNCHANGED <<repos, idx, repoObj, projects, exitCode>>
    /\ UNCHANGED <<upstream, localFile, outFile, projectsCache, notice, cards, stats,
                   md, maxLen, excerpt>>
    /\ UNCHANGED ui

\* main resumes with the answer to the README request of repos[idx], and
\* requests the contributors
ReadmeAnswer ==
    /\ pc = "await_readme"
    /\ \E full \in {repos[idx].full_name} :
         \E readme \in {getRepoReadme(ReadmeResponse(upstream, full))} :
           /\ repoObj' = repoObj @@ [readme_excerpt |->
                            IF readme # <<>> THEN excerptMarkdown(readme, OfflineMaxLen)
                            ELSE <<>>]
           /\ requests' = Append(requests, Request("contributors", 0, full))
           /\ inflight' = Answered(Request("readme", 0, full))
                            \cup {Request("contributors", 0, full)}
    /\ pc' = "await_contributors"
    /\ UNCHANGED <<upstream, localFile, page, all, repos, idx, projects, outFile, exitCode,
                   projectsCache, notice, cards, stats, md, maxLen, excerpt>>
    /\ UNCHANGED ui

\* main resumes with the answer to the contributors request of repos[idx],
\* pushes the object and goes to the next repository
ContributorsAnswer ==
    /\ pc = "await_contributors"
    /\ \E full \in {repos[idx].full_name} :
         \E done \in {repoObj @@ [contributors |->
                        getContributors(ContributorsResponse(upstream, full))]} :
           LoopTop(repos, Append(projects, done), idx + 1,
                   Answered(Request("contributors", 0, full)))
    /\ UNCHANGED <<upstream, localFile, page, all, outFile, exitCode,
                   projectsCache, notice, cards, stats, md, maxLen, excerpt>>
    /\ UNCHANGED ui

\* fs.writeFileSync(outFile, ...): it writes the document, or throws into the
\* catch of main
WriteFile ==
    /\ pc = "write"
    /\ \E written \in BOOLEAN :
          IF written
          THEN outFile' = Document(projects) /\ exitCode' = 0 /\ pc' = "exit"
          ELSE outFile' = outFile /\ exitCode' = 1 /\ pc' = "exit"
    /\ UNCHANGED <<upstream, localFile, page, all, repos, idx, repoObj, projects,
                   requests, inflight, projectsCache, notice, cards, stats, md, maxLen,
                   excerpt>>
    /\ UNCHANGED ui

GeneratorNext == Main \/ ListResponse \/ ReadmeAnswer \/ ContributorsAnswer \/ WriteFile

(***************************************************************************)
(* The page: tryLoadLocalJson, fetchGitHubRepos, the rendering, and init.  *)
(***************************************************************************)
\* what main leaves in projects for a listing of repositories (entries of the
\* API), as the steps above build it
GeneratedProjects(entries) ==
    MarkFeatured(SortByStars(
        [i \in 1..Len(entries) |->
            RepoObj(entries[i].summary)
            @@ [readme_excerpt |->
                    IF getRepoReadme(entries[i].readme) # <<>>
                    THEN excerptMarkdown(getRepoReadme(entries[i].readme), OfflineMaxLen)
                    ELSE <<>>,
                contributors |-> getContributors(entries[i].contributors)]]))

NamedEntries(ts) == [i \in 1..Len(ts) |-> Entry(ts[i], RepoName(1, i))]

\* Arrays of records that projects.json may hold: written by the generator,
\* or written or edited by hand
LocalRecords ==
    {GeneratedProjects(NamedEntries(ts)) :
        ts \in SeqsUpTo(RepoTemplates, 1) \cup {<<1, 2, 3, 5>>, <<4, 3, 2>>}}
    \cup {<<[name |-> "solo", repo |-> "https://github.com/x/solo", stars |-> 5]>>,
          <<[name |-> "a", stars |-> 1, forks |-> 1, featured |-> TRUE, language |-> "C"],
            [name |-> "b", stars |-> 7, forks |-> 0, featured |-> FALSE, language |-> "C"],
            [name |-> "c", featured |-> FALSE, tags |-> <<"x">>]>>}

\* projects.json as the fetch of the page finds it: status 0 is a fetch that
\* rejects; kind is what the body parses to: "array" (a bare array),
\* "projects" (an object with a projects array), "object" (another object),
\* "null" (the JSON null), "invalid" (no JSON)
LocalFiles ==
    {[status |-> st, kind |-> "invalid", records |-> <<>>] : st \in {0, 404, 500, 200}}
    \cup {[status |-> 200, kind |-> k, records |-> <<>>] : k \in {"object", "null"}}
    \cup {[status |-> 200, kind |-> k, records |-> rs] :
            k \in {"array", "projects"}, rs \in LocalRecords}
    \cup {[status |-> 404, kind |-> k, records |-> GeneratedProjects(NamedEntries(<<1>>))] :
            k \in {"array", "projects"}}

\* the result of a function that returns a list, returns null, or throws
Returns(list) == [how |-> "list", list |-> list]
ReturnsNull == [how |-> "null", list |-> <<>>]
Throws == [how |-> "throw", list |-> <<>>]

\* mutant of tryLoadLocalJson: without the branch for { projects: [...] }
tryLoadLocalJsonBareOnly(file) ==
    IF file.status = 0 THEN ReturnsNull
    ELSE IF ~Ok(file) THEN ReturnsNull
    ELSE IF file.kind = "array" THEN Returns(file.records)
    ELSE ReturnsNull

tryLoadLocalJson(file) ==
    IF file.status = 0 THEN ReturnsNull                \* catch
    ELSE IF ~Ok(file) THEN ReturnsNull
    ELSE IF file.kind \in {"array", "projects"} THEN Returns(file.records)
    ELSE ReturnsNull                                   \* other shape, or catch

\* the mapping of fetchGitHubRepos: the object of main plus readme_excerpt
MappedRepo(r) == RepoObj(r) @@ [readme_excerpt |-> <<>>]

fetchGitHubRepos(res) ==
    IF res.status = 0 THEN Throws                      \* the fetch rejects
    ELSE IF res.status = 403 \/ res.status = 404 THEN Throws
    ELSE IF res.kind # "array" THEN Throws             \* json() throws, or no array
    ELSE Returns(MarkFeatured(SortByStars(
            [i \in 1..Len(res.items) |-> MappedRepo(res.items[i])])))

\* p.f as a condition
Truthy(p, f) == f \in DOMAIN p /\ p[f] = TRUE

\* p.f as a condition, for a field that holds a text
TruthyText(p, f) == f \in DOMAIN p /\ p[f] # ""

EmptyState == <<[class |-> "muted", name |-> "", featured |-> FALSE]>>

\* mutant of renderProjects: every card gets the class featured
renderProjectsAllFeatured(list) ==
    IF Len(list) = 0 THEN EmptyState
    ELSE [i \in 1..Len(list) |->
            [class |-> "project-card", name |-> list[i].name, featured |-> TRUE]]

\* the children of #projects after renderProjects(list)
renderProjects(list) ==
    IF Len(list) = 0 THEN EmptyState
    ELSE [i \in 1..Len(list) |->
            [class |-> "project-card", name |-> list[i].name,
             featured |-> ("featured" \in DOMAIN list[i] /\ list[i].featured = TRUE)]]

RECURSIVE SumOf(_, _)
SumOf(list, f) ==
    IF list = <<>> THEN 0
    ELSE FieldOr(list[Len(list)], f, 0) + SumOf(SubSeq(list, 1, Len(list) - 1), f)

\* the data-target values updateStats sets
updateStats(list) ==
    [totalRepos |-> Len(list),
     totalStars |-> SumOf(list, "stars"),
     totalForks |-> SumOf(list, "forks"),
     languages |-> Cardinality({list[i].language :
                        i \in {j \in 1..Len(list) :
                                 "language" \in DOMAIN list[j] /\ list[j].language # ""}})]

\* Array.from(s).sort() of collectTags: the tags and the languages of the
\* records (as a set: the buttons are looked up by data-tag, not by position)
collectTags(list) ==
    UNION {{list[i].tags[k] : k \in 1..Len(list[i].tags)} :
              i \in {j \in 1..Len(list) : "tags" \in DOMAIN list[j]}}
    \cup {list[i].language : i \in {j \in 1..Len(list) : TruthyText(list[j], "language")}}

AllTag == "__all__"

UpperCase == "ABCDEFGHIJKLMNOPQRSTUVWXYZ"
LowerCase == "abcdefghijklmnopqrstuvwxyz"

\* String.prototype.toLowerCase, on the letters the model's texts are made of
RECURSIVE toLowerCase(_)
toLowerCase(s) ==
    IF Len(s) = 0 THEN ""
    ELSE LET c == SubSeq(s, 1, 1)
             At == {i \in 1..Len(UpperCase) : SubSeq(UpperCase, i, i) = c}
         IN  (IF At = {} THEN c ELSE LET i == CHOOSE j \in At : TRUE IN SubSeq(LowerCase, i, i))
             \o toLowerCase(SubSeq(s, 2, Len(s)))

\* String.prototype.trim on a single-line input: the blanks at both ends
RECURSIVE trim(_)
trim(s) ==
    IF Len(s) = 0 THEN ""
    ELSE IF SubSeq(s, 1, 1) = " " THEN trim(SubSeq(s, 2, Len(s)))
    ELSE IF SubSeq(s, Len(s), Len(s)) = " " THEN trim(SubSeq(s, 1, Len(s) - 1))
    ELSE s

\* String.prototype.includes
includes(text, q) ==
    \E i \in 0..(Len(text) - Len(q)) : SubSeq(text, i + 1, i + Len(q)) = q

\* Array.prototype.join(' ')
RECURSIVE join(_)
join(tags) ==
    IF Len(tags) = 0 THEN ""
    ELSE IF Len(tags) = 1 THEN tags[1]
    ELSE tags[1] \o " " \o join(Tail(tags))

\* (p.tags || []).includes(active) || p.language === active
HasTag(p, tag) ==
    \/ "tags" \in DOMAIN p /\ \E k \in 1..Len(p.tags) : p.tags[k] = tag
    \/ "language" \in DOMAIN p /\ p.language = tag

\* ((p.name || '') + ' ' + (p.desc || '') + ' ' + (p.tags || []).join(' '))
\*     .toLowerCase().includes(q)
MatchesSearch(p, q) ==
    includes(toLowerCase(FieldOr(p, "name", "") \o " " \o FieldOr(p, "desc", "") \o " "
                         \o join(FieldOr(p, "tags", <<>>))), q)

\* What the comparator of the chosen order compares two records by.  The
\* order "recent" compares the dates of updated_at; the documents of the model
\* have it in every record or in none, where every difference is NaN and the
\* comparator calls all records equal.
SortKey(p, order) ==
    IF order = "recent" THEN (IF "updated_at" \in DOMAIN p THEN p.updated_at ELSE 0)
    ELSE IF order = "stars" THEN FieldOr(p, "stars", 0)
    ELSE (IF Truthy(p, "featured") THEN 1 ELSE 0)

\* list.sort by SortKey, highest first; the sort is stable
RECURSIVE SortedByKey(_, _, _)
SortedByKey(list, order, keys) ==
    IF keys = {} THEN <<>>
    ELSE LET top == CHOOSE c \in keys : \A d \in keys : d <= c
             IsTop(p) == SortKey(p, order) = top
         IN  SelectSeq(list, IsTop) \o SortedByKey(list, order, keys \ {top})

SortedList(list, order) ==
    SortedByKey(list, order, {SortKey(list[i], order) : i \in 1..Len(list)})

\* the filters of applyFilters: the active tag, then the search text
Filtered(list, q, tag) ==
    LET Tagged(p) == tag = AllTag \/ HasTag(p, tag)
        Found(p) == q = "" \/ MatchesSearch(p, q)
    IN  SelectSeq(SelectSeq(list, Tagged), Found)

\* mutant of applyFilters: let list = projectsCache, without slice(): when no
\* filter makes a new array, the sort orders projectsCache itself
applyFiltersInPlace(cache, text, tag, order) ==
    CHOOSE r \in {[cache |-> IF tag = AllTag /\ q = "" THEN SortedList(cache, order) ELSE cache,
                   list |-> SortedList(Filtered(cache, q, tag), order)] :
                    q \in {toLowerCase(trim(text))}} : TRUE

\* applyFilters: projectsCache as it leaves it, and the list it hands to
\* renderProjects (updateTimeline and renderLanguageChart draw the same list)
applyFilters(cache, text, tag, order) ==
    CHOOSE r \in {[cache |-> cache, list |-> SortedList(Filtered(cache, q, tag), order)] :
                    q \in {toLowerCase(trim(text))}} : TRUE

NoticeLocal == [text |-> "Loaded projects.json locally.", kind |-> "success"]
NoticeFetching == [text |-> "projects.json not found locally. Attempting to fetch", kind |-> "info"]
NoticeGitHub == [text |-> "Loaded public GitHub repos", kind |-> "success"]
NoticeImport == [text |-> "To auto-fill projects.json locally, run the provided generator script", kind |-> "info"]
NoticeFailed == [text |-> "No projects found. To populate the site: run generate_projects.js", kind |-> "error"]

\* The API is drawn from all upstreams where the page will ask it; where the
\* page shows the local records it never asks, and one upstream stands for all.
InitPage ==
    /\ pc = "init"
    /\ localFile \in LocalFiles
    /\ upstream \in IF tryLoadLocalJson(localFile).list # <<>>
                    THEN {[full |-> 0, last |-> lp] : lp \in BadPages}
                    ELSE Upstreams
    /\ requests = <<>> /\ inflight = {}
    /\ GeneratorIdle /\ PageShown /\ HarnessIdle

\* init runs up to its first await: tryLoadLocalJson has fetched projects.json
InitCall ==
    /\ pc = "init"
    /\ Issue(Request("projects.json", 0, ""))
    /\ pc' = "await_local"
    /\ UNCHANGED <<upstream, localFile, page, all, repos, idx, repoObj, projects, outFile,
                   exitCode, projectsCache, notice, cards, stats, md, maxLen, excerpt>>
    /\ UNCHANGED ui

\* init resumes with the result of tryLoadLocalJson: it shows the local
\* records, or shows the notice and calls fetchGitHubRepos
LocalAnswer ==
    /\ pc = "await_local"
    /\ \E local \in {tryLoadLocalJson(localFile)}, req \in {Request("projects.json", 0, "")} :
           IF local.how = "list" /\ Len(local.list) # 0
           THEN /\ projectsCache' = local.list
                /\ stats' = updateStats(local.list)
                /\ cards' = renderProjects(local.list)
                /\ filters' = {AllTag} \cup collectTags(local.list)
                /\ active' = AllTag
                /\ notice' = NoticeLocal
                /\ inflight' = Answered(req)
                /\ pc' = "ready"
                /\ UNCHANGED requests
           ELSE /\ notice' = NoticeFetching
                /\ requests' = Append(requests, Request("repos", 0, ""))
                /\ inflight' = Answered(req) \cup {Request("repos", 0, "")}
                /\ pc' = "await_github"
                /\ UNCHANGED <<projectsCache, stats, cards, filters, active>>
    /\ UNCHANGED <<upstream, localFile, page, all, repos, idx, repoObj, projects, outFile,
                   exitCode, md, maxLen, excerpt, search, sortBy, exported, modalOpen>>

\* init resumes with the answer to the request of fetchGitHubRepos (one
\* request, without a page parameter: the first page)
GitHubAnswer ==
    /\ pc = "await_github"
    /\ \E gh \in {fetchGitHubRepos(PageResponse(upstream, 1))} :
           IF gh.how = "list" /\ Len(gh.list) # 0
           THEN /\ projectsCache' = gh.list
                /\ stats' = updateStats(gh.list)
                /\ cards' = renderProjects(gh.list)
                /\ filters' = {AllTag} \cup collectTags(gh.list)
                /\ active' = AllTag
                /\ notice' = NoticeGitHub
           ELSE \* the catch of init
                /\ notice' = NoticeFailed
                /\ projectsCache' = <<>>
                /\ cards' = renderProjects(<<>>)
                /\ UNCHANGED <<stats, filters, active>>
    /\ inflight' = Answered(Request("repos", 0, ""))
    /\ pc' = "ready"
    /\ UNCHANGED <<upstream, localFile, page, all, repos, idx, repoObj, projects, outFile,
                   exitCode, requests, md, maxLen, excerpt, search, sortBy, exported,
                   modalOpen>>

\* The visitor's events.  init registers the handlers of the buttons, of
\* #search and of #sort before its first await, so they run while the load is
\* under way as well; the tag buttons and the cards exist once they are rendered.
HandlersWired == pc \in {"await_local", "await_github", "ready"}

SearchTexts == {"", "c", " SITE "}
SortValues == {"featured", "recent", "stars"}

\* what no event of the visitor changes
LoadState ==
    <<pc, upstream, localFile, page, all, repos, idx, repoObj, projects, outFile,
      exitCode, requests, inflight, stats, md, maxLen, excerpt>>

\* applyFilters() with the inputs as the event leaves them
ApplyFilters(text, tag, order) ==
    \E r \in {applyFilters(projectsCache, text, tag, order)} :
        /\ projectsCache' = r.cache
        /\ cards' = renderProjects(r.list)

\* input on #search
SearchInput ==
    /\ HandlersWired
    /\ \E text \in SearchTexts \ {search} :
          /\ search' = text
          /\ ApplyFilters(text, active, sortBy)
    /\ UNCHANGED <<LoadState, notice, sortBy, active, filters, exported, modalOpen>>

\* change on #sort
SortChange ==
    /\ HandlersWired
    /\ \E order \in SortValues \ {sortBy} :
          /\ sortBy' = order
          /\ ApplyFilters(search, active, order)
    /\ UNCHANGED <<LoadState, notice, search, active, filters, exported, modalOpen>>

\* click on a button of #filters
FilterClick ==
    /\ HandlersWired
    /\ \E tag \in filters :
          /\ active' = tag
          /\ ApplyFilters(search, tag, sortBy)
    /\ UNCHANGED <<LoadState, notice, search, sortBy, filters, exported, modalOpen>>

\* click on #importBtn
ImportClick ==
    /\ HandlersWired
    /\ notice' = NoticeImport
    /\ UNCHANGED <<LoadState, projectsCache, cards, ui>>

\* click on #exportJSON: JSON.stringify({ projects: projectsCache })
ExportClick ==
    /\ HandlersWired
    /\ exported' = <<[projects |-> projectsCache]>>
    /\ UNCHANGED <<LoadState, projectsCache, cards, notice, search, sortBy, active, filters,
                   modalOpen>>

\* click on the Details button of a card
DetailsClick ==
    /\ HandlersWired
    /\ \E i \in 1..Len(cards) : cards[i].class = "project-card"
    /\ modalOpen' = TRUE
    /\ UNCHANGED <<LoadState, projectsCache, cards, notice, search, sortBy, active, filters,
                   exported>>

\* the Escape key (its handler is registered at the end of init), or a click
\* on #modalClose: closeModal()
Escape ==
    /\ HandlersWired
    /\ modalOpen
    /\ modalOpen' = FALSE
    /\ UNCHANGED <<LoadState, projectsCache, cards, notice, search, sortBy, active, filters,
                   exported>>

VisitorNext ==
    SearchInput \/ SortChange \/ FilterClick \/ ImportClick \/ ExportClick
    \/ DetailsClick \/ Escape

PageNext == InitCall \/ LocalAnswer \/ GitHubAnswer

(***************************************************************************)
(* A run is one run of the generator or one load of the page.              *)
(***************************************************************************)
Init == InitGenerator \/ InitPage
Next ==
    \/ Main \/ ListResponse \/ ReadmeAnswer \/ ContributorsAnswer \/ WriteFile
    \/ InitCall \/ LocalAnswer \/ GitHubAnswer
Spec == Init /\ [][Next]_vars

(***************************************************************************)
(* A visit: one load of the page, with the events of the visitor at any    *)
(* moment from the start of init on.                                       *)
(***************************************************************************)
\* the listings the API answers a visit with
VisitUpstreams ==
    {[full |-> 0, last |-> lp] : lp \in BadPages}
    \cup {[full |-> 0, last |-> [status |-> 200, kind |-> "array", bulk |-> 0, templates |-> ts]] :
            ts \in {<<>>, <<2>>, <<1, 2, 3, 5>>}}

\* projects.json as a visit finds it: missing, no JSON, or a document with a
\* projects array (empty or not)
VisitFiles == {f \in LocalFiles : f.status \in {200, 404} /\ f.kind \in {"invalid", "projects"}}

InitVisit ==
    /\ pc = "init"
    /\ localFile \in VisitFiles
    /\ upstream \in IF tryLoadLocalJson(localFile).list # <<>>
                    THEN {[full |-> 0, last |-> lp] : lp \in {bp \in BadPages : bp.status = 0}}
                    ELSE VisitUpstreams
    /\ requests = <<>> /\ inflight = {}
    /\ GeneratorIdle /\ PageShown /\ HarnessIdle

NextVisit ==
    \/ InitCall \/ LocalAnswer \/ GitHubAnswer
    \/ SearchInput \/ SortChange \/ FilterClick \/ ImportClick \/ ExportClick
    \/ DetailsClick \/ Escape
SpecVisit == InitVisit /\ [][NextVisit]_vars

(***************************************************************************)
(* excerptMarkdown on its own: README texts of every length around the     *)
(* maximum, handed to it with the maximum of main or with the default.     *)
(***************************************************************************)
Filler(n) == [i \in 1..n |-> "a"]

\* what a README text of the harness starts with
MarkdownSamples ==
    { <<>>,
      <<" ", NL>>,
      <<"#", " ", "T", NL>>,
      <<"#", NL>>,
      <<"!", "[", "i", "]", "(", "u", ")">>,
      <<"[", "t", "]", "(", "u", ")">>,
      <<"[", "t", "]", "(", "u", NL, ")">>,
      <<BQ, BQ, BQ, "c", NL, BQ, BQ, BQ, "x">>,
      <<"x", CR, NL>>,
      <<".", ".", ".">> }

\* what it ends with
MarkdownEndings == { <<>>, <<".", ".", ".">>, <<NL, "#", "h">>, <<"[", "t", "]", "(", "u", ")", " ">> }

ExcerptLimits == {DefaultMaxLen, OfflineMaxLen}

ReadmeInputs ==
    {head \o Filler(n) \o tail :
        head \in MarkdownSamples, tail \in MarkdownEndings,
        n \in {0, 1} \cup UNION {(limit - PadSpread)..(limit + PadSpread) : limit \in ExcerptLimits}}

InitExcerpt ==
    /\ pc = "excerpt"
    /\ md \in ReadmeInputs
    /\ maxLen = 0
    /\ excerpt = <<>>
    /\ upstream = [full |-> 0, last |-> CHOOSE lp \in BadPages : lp.status = 0]
    /\ requests = <<>> /\ inflight = {}
    /\ GeneratorIdle /\ PageIdle

\* excerptMarkdown(md, 1400), as main calls it
CallExcerptOffline ==
    /\ pc = "excerpt"
    /\ maxLen' = OfflineMaxLen
    /\ excerpt' = excerptMarkdown(md, OfflineMaxLen)
    /\ pc' = "excerpt_done"
    /\ UNCHANGED <<upstream, localFile, page, all, repos, idx, repoObj, projects, outFile,
                   exitCode, requests, inflight, projectsCache, notice, cards, stats, md>>
    /\ UNCHANGED ui

\* excerptMarkdown(md): maxLen = 1200
CallExcerptDefault ==
    /\ pc = "excerpt"
    /\ maxLen' = DefaultMaxLen
    /\ excerpt' = excerptMarkdown(md, DefaultMaxLen)
    /\ pc' = "excerpt_done"
    /\ UNCHANGED <<upstream, localFile, page, all, repos, idx, repoObj, projects, outFile,
                   exitCode, requests, inflight, projectsCache, notice, cards, stats, md>>
    /\ UNCHANGED ui

NextExcerpt == CallExcerptOffline \/ CallExcerptDefault
SpecExcerpt == InitExcerpt /\ [][NextExcerpt]_vars

(***************************************************************************)
(* Properties.                                                             *)
(***************************************************************************)
IsGenerator == pc \in {"main", "await_list", "await_readme", "await_contributors", "write", "exit"}
IsPage == pc \in {"init", "await_local", "await_github", "ready"}

IsListRequest(r) == r.api = "repos"
IsEnrichmentRequest(r) == r.api \in {"readme", "contributors"}
ListRequests == SelectSeq(requests, IsListRequest)

\* listRepos has returned to main
Listed == IsGenerator /\ idx >= 1

\* the items of pages 1..k of upstream u, in page order
RECURSIVE Concatenated(_, _)
Concatenated(u, k) ==
    IF k = 0 THEN <<>> ELSE Concatenated(u, k - 1) \o PageResponse(u, k).items

\* C1: listRepos requests page 1, 2, ... in order, each request only once the
\* page before it was received and held at least 100 items; it returns right
\* behind the first page of fewer than 100 items, with the items of all the
\* pages it requested in page order.  Pages of 100, 100 and 37 items give 237
\* items and exactly 3 requests.
C1_Pagination ==
    IsGenerator =>
        LET k == Len(ListRequests)
        IN  /\ \A n \in 1..k : ListRequests[n].page = n
            /\ \A n \in 1..(k - 1) :
                  /\ Len(PageResponse(upstream, n).items) >= perPage
                  /\ Request("repos", n, "") \notin inflight
            /\ pc = "await_list" => inflight = {Request("repos", k, "")} /\ page = k
            /\ Listed =>
                  /\ Len(PageResponse(upstream, k).items) < perPage
                  /\ repos = Concatenated(upstream, k)
            /\ (Listed /\ upstream.full = 2 /\ upstream.last.bulk = 37
                       /\ upstream.last.templates = <<>>) =>
                  Len(repos) = 237 /\ k = 3

C1_Witness ==
    /\ Listed /\ pc = "write"
    /\ upstream.full = 2 /\ upstream.last.bulk = 37
    /\ Len(repos) = 237 /\ Len(ListRequests) = 3

\* a page request that was answered with a status that is no success
FailedPages ==
    {n \in 1..Len(ListRequests) :
        /\ ~Ok(PageResponse(upstream, n))
        /\ Request("repos", n, "") \notin inflight}

\* C2: once a page request of listRepos is answered with a status that is no
\* success, after any number of good pages, the run has ended with exit code 1,
\* main holds no repository and no project, no README or contributors request
\* was issued, and projects.json is as it was.
C2_ListingFailureFatal ==
    (IsGenerator /\ FailedPages # {}) =>
        /\ pc = "exit" /\ exitCode = 1
        /\ repos = <<>> /\ projects = <<>>
        /\ \A i \in 1..Len(requests) : ~IsEnrichmentRequest(requests[i])
        /\ outFile = PreviousDocument

C2_Witness ==
    /\ IsGenerator /\ FailedPages = {3}
    /\ pc = "exit" /\ exitCode = 1 /\ outFile = PreviousDocument

\* what the record of a repository holds for an answer of the README endpoint
\* and for an answer of the contributors endpoint
ExpectedExcerpt(res) ==
    IF res.status >= 200 /\ res.status <= 299 /\ res.text # <<>>
    THEN excerptMarkdown(res.text, 1400) ELSE <<>>
ExpectedContributors(res) ==
    IF res.status >= 200 /\ res.status <= 299 /\ res.kind = "array"
    THEN [i \in 1..Len(res.items) |->
            [login |-> res.items[i].login, avatar |-> res.items[i].avatar_url,
             url |-> res.items[i].html_url, contributions |-> res.items[i].contributions]]
    ELSE <<>>

\* the record that list holds for the repository of summary r, given the two
\* answers: each enrichment field depends on its own answer alone, every other
\* field (but featured, which the ranking sets) on the summary alone
HoldsRecordOf(list, r, readmeRes, contributorsRes) ==
    \E i \in 1..Len(list) :
        /\ list[i].name = r.name
        /\ list[i].readme_excerpt = ExpectedExcerpt(readmeRes)
        /\ list[i].contributors = ExpectedContributors(contributorsRes)
        /\ [list[i] EXCEPT !.featured = FALSE]
              = RepoObj(r) @@ [readme_excerpt |-> list[i].readme_excerpt,
                               contributors |-> list[i].contributors]

\* C3: a failed README request leaves readme_excerpt = '' and a failed
\* contributors request leaves contributors = [] in the record of that
\* repository and changes nothing else; no failure of an enrichment request ends
\* the run: main reaches the write with one record per listed repository, and
\* the document it writes holds exactly these records.
C3_EnrichmentIsolated ==
    Listed =>
        /\ pc = "exit" => idx = Len(repos) + 1
        /\ pc \in {"write", "exit"} =>
              /\ Len(projects) = Len(repos)
              /\ \A j \in 1..Len(repos) :
                    \E readmeRes \in {ReadmeResponse(upstream, repos[j].full_name)},
                       contributorsRes \in {ContributorsResponse(upstream, repos[j].full_name)} :
                        HoldsRecordOf(projects, repos[j], readmeRes, contributorsRes)
        /\ (pc = "exit" /\ exitCode = 0) => outFile.projects = projects
        /\ pc \in {"await_readme", "await_contributors"} => Len(projects) = idx - 1

\* the contributors request of a repository fails: it rejects, answers with a
\* status that is no success, or with a body that is no JSON array
ContributorsFailed(full) ==
    \E res \in {ContributorsResponse(upstream, full)} : ~Ok(res) \/ res.kind # "array"

C3_Witness ==
    /\ Listed /\ pc = "exit" /\ exitCode = 0
    /\ Len(outFile.projects) = 3
    /\ \E i, j, k \in 1..3 :
          /\ ~Ok(ReadmeResponse(upstream, repos[i].full_name))
          /\ ContributorsFailed(repos[i].full_name)
          /\ Ok(ReadmeResponse(upstream, repos[j].full_name))
          /\ ContributorsFailed(repos[j].full_name)
          /\ ~Ok(ReadmeResponse(upstream, repos[k].full_name))
          /\ ~ContributorsFailed(repos[k].full_name)

\* the fields of a Project Record and the values each may hold
Text == Seq(STRING)
ContributorRecords == [login : STRING, avatar : STRING, url : STRING, contributions : Nat]
ProjectRecords ==
    [name : STRING, repo : STRING, desc : STRING, tags : Seq(STRING),
     stars : Nat, forks : Nat, open_issues_count : Nat, size : Nat,
     featured : BOOLEAN, updated_at : Nat, created_at : Nat,
     language : STRING, license : STRING, thumbnail : STRING,
     screenshots : Seq([src : STRING, alt : STRING]), default_branch : STRING,
     readme_excerpt : Text, contributors : Seq(ContributorRecords)]

\* the page shows what fetchGitHubRepos returned
FallbackShown == IsPage /\ pc = "ready" /\ notice = NoticeGitHub

\* C4: every record the generator collects and every record the fallback of
\* the page produces has every field of the data model with a value of its
\* type, whatever optional fields the summary lacks; on the page the README
\* excerpt and the contributors are the empty defaults.
C4_DefaultComplete ==
    /\ IsGenerator => \A i \in 1..Len(projects) : projects[i] \in ProjectRecords
    /\ FallbackShown =>
          \A i \in 1..Len(projectsCache) :
              /\ projectsCache[i] \in ProjectRecords
              /\ projectsCache[i].readme_excerpt = <<>>
              /\ projectsCache[i].contributors = <<>>

\* the half of C4 that is about the generator
C4_GeneratorComplete ==
    IsGenerator => \A i \in 1..Len(projects) : projects[i] \in ProjectRecords

\* the list a ranking has just produced: projects of the generator, or what
\* fetchGitHubRepos returned to the page; <<>> in any other state
Ranked ==
    IF Listed /\ pc \in {"write", "exit"} THEN projects
    ELSE IF FallbackShown THEN projectsCache
    ELSE <<>>

\* the summaries the ranked list was made from, in the order of the listing
RankedInput ==
    IF Listed /\ pc \in {"write", "exit"} THEN repos
    ELSE IF FallbackShown THEN PageResponse(upstream, 1).items
    ELSE <<>>

Least(a, b) == IF a <= b THEN a ELSE b

\* C5: of N ranked records exactly min(3, N) are featured, all when N < 3; the
\* featured records are the first of the list, no record behind the third is
\* featured, and no record that is not featured has more stars than one that is
\* (so with distinct stars the featured are the 3 with the most stars).
C5_FeaturedMarking ==
    \E L \in {Ranked}, In \in {RankedInput} :
        /\ Cardinality({i \in 1..Len(L) : L[i].featured}) = Least(3, Len(L))
        /\ \A i \in 1..Len(L) : L[i].featured <=> i <= 3
        /\ \A i, j \in 1..Len(L) :
              (L[i].featured /\ ~L[j].featured) => L[i].stars >= L[j].stars
        /\ Len(L) = Len(In)

C5_Witness ==
    /\ FallbackShown
    /\ Len(projectsCache) = 100
    /\ Cardinality({i \in 1..100 : projectsCache[i].featured}) = 3

\* position of the repository called name in the listing
InputPosition(listing, name) ==
    CHOOSE k \in 1..Len(listing) : listing[k].name = name

\* C6: the ranked list is a permutation of the listing, ordered by stars
\* descending, and records with equal stars are in the order of the listing.
C6_RankerStable ==
    \E L \in {Ranked}, In \in {RankedInput} :
        /\ Len(L) = Len(In)
        /\ \A k \in 1..Len(In) :
              Cardinality({i \in 1..Len(L) : L[i].name = In[k].name}) = 1
        /\ \A k \in 1..Len(In) :
              \E i \in 1..Len(L) : L[i].name = In[k].name
                                    /\ L[i].stars = In[k].stargazers_count
        /\ \A i \in 1..(Len(L) - 1) :
              /\ L[i].stars >= L[i + 1].stars
              /\ L[i].stars = L[i + 1].stars =>
                    InputPosition(In, L[i].name) < InputPosition(In, L[i + 1].name)

C6_Witness ==
    /\ Listed /\ pc = "exit" /\ exitCode = 0
    /\ Len(projects) = 3
    /\ projects[1].stars = 5 /\ projects[2].stars = 5 /\ projects[3].stars = 2
    /\ repos[1].stargazers_count = 2
    /\ projects[1].name = repos[2].name /\ projects[2].name = repos[3].name

\* projects.json is there and is a bare array or an object with a projects array
AcceptedShape(file) == file.status = 200 /\ file.kind \in {"array", "projects"}

\* init is behind its await of tryLoadLocalJson
LocalAnswered == IsPage /\ pc \in {"await_github", "ready"}

\* the request of fetchGitHubRepos has been issued
FallbackIssued == \E i \in 1..Len(requests) : requests[i].api = "repos"

\* the page shows the records of projects.json
LocalShown ==
    /\ IsPage /\ pc = "ready" /\ notice = NoticeLocal
    /\ projectsCache = localFile.records

C8_ClientFailure ==
    (IsPage /\ pc = "ready" /\ FallbackIssued /\ ~Ok(PageResponse(upstream, 1))) =>
        /\ notice = NoticeFailed
        /\ cards = EmptyState
        /\ projectsCache = <<>>

\* the sum of field f over the records of list, a record without it counting 0
RECURSIVE Total(_, _)
Total(list, f) ==
    IF list = <<>> THEN 0
    ELSE (IF f \in DOMAIN Head(list) THEN Head(list)[f] ELSE 0) + Total(Tail(list), f)

StarsOf(p) == IF "stars" \in DOMAIN p THEN p.stars ELSE 0

\* one card per record of the document, in its order, and the counters
CardsAndCounters ==
    /\ Len(cards) = Len(localFile.records)
    /\ \A i \in 1..Len(cards) :
          cards[i].class = "project-card" /\ cards[i].name = localFile.records[i].name
    /\ stats.totalRepos = Len(localFile.records)
    /\ stats.totalStars = Total(localFile.records, "stars")
    /\ stats.totalForks = Total(localFile.records, "forks")

\* C9 as the claim states it: the cards of the top records by stars are the
\* featured ones.
C9_AsClaimed ==
    LocalShown =>
        /\ CardsAndCounters
        /\ Cardinality({i \in 1..Len(cards) : cards[i].featured}) = Least(3, Len(cards))
        /\ \A i, j \in 1..Len(cards) :
              (cards[i].featured /\ ~cards[j].featured) =>
                  StarsOf(localFile.records[i]) >= StarsOf(localFile.records[j])

\* C9, amended: with the local document accepted, the page shows one card per
\* record, the counters are computed from the records (totalStars is the sum of
\* their stars), and a card is marked featured exactly when its record has
\* featured = true in the document (the page does not rank local records); one
\* record with stars 5 and featured = true gives one featured card and
\* totalStars = 5.
C9_LocalLoad ==
    LocalShown =>
        /\ CardsAndCounters
        /\ \A i \in 1..Len(cards) :
              cards[i].featured <=>
                  ("featured" \in DOMAIN localFile.records[i]
                      /\ localFile.records[i].featured = TRUE)
        /\ (Len(localFile.records) = 1 /\ StarsOf(localFile.records[1]) = 5) =>
              stats.totalStars = 5 /\ Len(cards) = 1

C9_Witness ==
    /\ LocalShown
    /\ Len(localFile.records) = 1
    /\ localFile.records[1].stars = 5
    /\ "featured" \in DOMAIN localFile.records[1]
    /\ localFile.records[1].featured
    /\ Len(cards) = 1 /\ cards[1].featured /\ stats.totalStars = 5

\* C10: the excerpt is never longer than the maximum; a cleaned text longer
\* than the maximum gives an excerpt of exactly the maximum length that ends
\* with the ellipsis behind the first maximum - 3 characters of the text, and a
\* cleaned text that is not longer is returned as it is.
C10_ExcerptBound ==
    pc = "excerpt_done" =>
        \E t \in {CleanMarkdown(md)} :
            /\ maxLen \in {1200, 1400}
            /\ Len(excerpt) <= maxLen
            /\ Len(t) > maxLen =>
                  /\ Len(excerpt) = maxLen
                  /\ SubSeq(excerpt, maxLen - 2, maxLen) = <<".", ".", ".">>
                  /\ SubSeq(excerpt, 1, maxLen - 3) = SubSeq(t, 1, maxLen - 3)
            /\ Len(t) <= maxLen => excerpt = t

C10_Witness ==
    /\ pc = "excerpt_done"
    /\ maxLen = 1400
    /\ Len(CleanMarkdown(md)) = 1401
    /\ Len(excerpt) = 1400
    /\ excerpt[1400] = "." /\ excerpt[1397] = "a"

\* the request main issues in position i: the listing pages in page order,
\* then for each repository in listing order its README request and its
\* contributors request
GeneratorRequest(i) ==
    IF i <= page THEN Request("repos", i, "")
    ELSE IF (i - page) % 2 = 1
         THEN Request("readme", 0, repos[(i - page + 1) \div 2].full_name)
         ELSE Request("contributors", 0, repos[(i - page) \div 2].full_name)

LoadedCollection ==
    IF ~FallbackIssued THEN localFile.records
    ELSE CHOOSE list \in {r.list : r \in {fetchGitHubRepos(PageResponse(upstream, 1))}} : TRUE

\* the notice tells how to remediate: it says to run the generator script
HintShown == notice \in {NoticeFailed, NoticeImport}

\* C12: once init has ended, whatever the visitor has done since the page
\* started, the notice shows the state that the load reached (local data
\* loaded, fallback succeeded, or fully failed), and the remediation hint is
\* shown when and only when that state is fully failed.
C12_IndicatorPersistent ==
    (IsPage /\ pc = "ready") =>
        /\ notice = (IF ~FallbackIssued THEN NoticeLocal
                     ELSE IF LoadedCollection # <<>> THEN NoticeGitHub
                     ELSE NoticeFailed)
        /\ HintShown <=> (FallbackIssued /\ LoadedCollection = <<>>)

\* a step of applyFilters that changes what the page shows or is set to
FilterEvent ==
    cards' # cards \/ search' # search \/ sortBy' # sortBy \/ active' # active

\* the cards shown are a sub-collection of cache whose records all match the
\* tag and the search text: each card is the card of a record of its own, and
\* the empty state is shown when there is none
DisplayedMatches(shown, cache, text, tag) ==
    \E q \in {toLowerCase(trim(text))} :
        IF shown = EmptyState
        THEN \A i \in 1..Len(cache) :
                ~((tag = AllTag \/ HasTag(cache[i], tag))
                  /\ (q = "" \/ MatchesSearch(cache[i], q)))
        ELSE /\ Len(shown) <= Len(cache)
             /\ \A i, j \in 1..Len(shown) : i # j => shown[i].name # shown[j].name
             /\ \A i \in 1..Len(shown) :
                   /\ shown[i].class = "project-card"
                   /\ \E k \in 1..Len(cache) :
                         /\ cache[k].name = shown[i].name
                         /\ tag = AllTag \/ HasTag(cache[k], tag)
                         /\ q = "" \/ MatchesSearch(cache[k], q)

\* C13: once init has ended, no event of the visitor changes projectsCache: it
\* holds the records of the load in their order; the list shown by a step of
\* applyFilters is a sub-collection of it whose records match the active tag
\* and the search text; and Export JSON exports the whole collection.
C13_FilterFrame ==
    [][pc = "ready" =>
          /\ projectsCache = LoadedCollection
          /\ projectsCache' = projectsCache
          /\ FilterEvent => DisplayedMatches(cards', projectsCache', search', active')
          /\ exported' # exported => exported' = <<[projects |-> LoadedCollection]>>]_vars

C13_Witness ==
    /\ pc = "ready" /\ Len(projectsCache) = 4 /\ projectsCache = LoadedCollection
    /\ search = "c" /\ active = "JavaScript" /\ sortBy = "stars"
    /\ cards # EmptyState /\ Len(cards) < Len(projectsCache)
    /\ exported = <<[projects |-> projectsCache]>>

====
